---- MODULE Spec2Model ----
(***************************************************************************)
(* Model of gerbi/managers.py: the Content store (set_or_create_content,   *)
(* create_content_if_changed, get_content_object, get_content with its     *)
(* memo and shared cache), the path resolver (PageManager.from_path) and   *)
(* the alias resolver (PageAliasManager.from_path).                        *)
(*                                                                         *)
(* Strings that the code inspects character by character (paths, urls) are *)
(* sequences of tokens; a token is "/", "?" or a whole slug.  Content      *)
(* bodies are taken from a small alphabet on which the two conversions of  *)
(* the code (sanitize, filter_link) are not the identity.                  *)
(*                                                                         *)
(* Time is a counter: datetime.now() is read once per created Content and  *)
(* two sequential creations never read the same instant.  freeze_date 0    *)
(* stands for None (a datetime is always truthy, so 0 is never a date).    *)
(*                                                                         *)
(* The methods take no lock and run in no transaction.  For the claims     *)
(* about concurrent callers, create_content_if_changed and get_content are *)
(* also given as one action per query, on the calls variable; the instants *)
(* the callers read from the clock are distinct too.                       *)
(***************************************************************************)
EXTENDS Integers, Sequences, FiniteSets, TLC

VARIABLES
    settings,   \* the GERBI_* settings read by the managers
    pages,      \* Page rows, by id
    contents,   \* Content rows
    born,       \* every Content ever created: <<page, language, type, date>>
    now,        \* the next value of datetime.now()
    cache,      \* django.core.cache: key -> content dict
    memo,       \* page._content_dict of the live Page object of each page
    aliases,    \* PageAlias rows
    last,       \* the last call: operation, arguments, result
    calls       \* the calls in progress of the concurrent callers

vars ==
    <<settings, pages, contents, born, now, cache, memo, aliases, last, calls>>

\* What the Content writes leave alone.
others == <<settings, pages, cache, memo, aliases, calls>>

(***************************************************************************)
(* Bounds of the model.                                                    *)
(***************************************************************************)
\* Contents are created at instants 1..MaxTime.
MaxTime == 3
\* GERBI_CONTENT_REVISION_DEPTH is drawn from 0..MaxDepth.
MaxDepth == 2
\* Request paths have at most MaxPathLen tokens.
MaxPathLen == 3

(***************************************************************************)
(* Configuration and input alphabets.                                      *)
(***************************************************************************)
GERBI_LANGUAGES == <<"en", "fr">>

GERBI_DEFAULT_LANGUAGE == "en"

PageIds == {1, 2}

Bodies == {"", "<a>", "<A>", "<a></a>"}

Slugs == {"a", "b"}

\* A path is a string: a sequence of "/" and of maximal runs of other
\* characters, each run one token.
Tokens == {"/"} \cup Slugs

Paths ==
    {p \in UNION {[1..n -> Tokens] : n \in 0..MaxPathLen} :
        \A i \in 1..(Len(p) - 1) : p[i] = "/" \/ p[i + 1] = "/"}

ContentTypes == {"title", "slug"}

\* GERBI_CONTENT_DICT_KEY % (page.id, ctype, frozen)
CacheKeys == PageIds \X ContentTypes \X {0, 1}

\* No content dict: None, or the empty dict.
NoDict == [l \in {} |-> ""]

\* page._content_dict of a Page object just loaded: None, which lines 232-233
\* make the dict without keys.
NoMemo == [k \in CacheKeys |-> NoDict]

\* A page without parent, published, on the current site, not frozen.
NewPage ==
    [parent |-> 0, status |-> "PUBLISHED", on_site |-> TRUE,
     freeze_date |-> 0]

NoContent ==
    [id |-> 0, page |-> 0, language |-> "", type |-> "", body |-> "",
     creation_date |-> 0]

\* The concurrent callers (requests served at the same time).
Callers == {"r1", "r2"}

\* A caller that is in no call.  pc is the line the caller is at; args,
\* content, created, oldest_content, key and content_dict are the locals of
\* the call, seen is the row the call read as the latest one, and body the
\* value get_content returned.
NoCall ==
    [pc |-> "idle", args |-> <<>>, seen |-> NoContent, content |-> NoContent,
     created |-> FALSE, oldest_content |-> <<>>, key |-> <<>>,
     content_dict |-> <<>>, body |-> ""]

(***************************************************************************)
(* ContentManager                                                          *)
(***************************************************************************)
\* html5lib parses the fragment and serialises the tree again: tag names
\* come back in lower case and markup left open comes back closed; text and
\* normalised markup come back as given.
sanitize(content) ==
    IF content \in {"<a>", "<A>"} THEN "<a></a>" ELSE content

\* The body the two write operations store.
sanitized(body) ==
    IF settings.GERBI_SANITIZE_USER_INPUT THEN sanitize(body) ELSE body

\* self.filter(page=page, language=language, type=ctype)
filter(page, language, ctype) ==
    {c \in contents :
        c.page = page /\ c.language = language /\ c.type = ctype}

\* Mutant of latest: the ordering reversed, the oldest row.
earliest(S) ==
    {c \in S : \A d \in S : c.creation_date <= d.creation_date}

\* QuerySet.latest('creation_date') on a non-empty set: a record whose
\* creation_date is the greatest (any of them when several are).
latest(S) ==
    {c \in S : \A d \in S : d.creation_date <= c.creation_date}

\* Mutant of order_by_desc: the rows are in ascending order.
RECURSIVE order_by_asc(_)
order_by_asc(S) ==
    IF S = {} THEN <<>>
    ELSE LET c == CHOOSE x \in S : \A d \in S :
                                    x.creation_date <= d.creation_date
         IN  <<c>> \o order_by_asc(S \ {c})

\* QuerySet.order_by('-creation_date'), as a sequence.
RECURSIVE order_by_desc(_)
order_by_desc(S) ==
    IF S = {} THEN <<>>
    ELSE LET c == CHOOSE x \in latest(S) : TRUE
         IN  <<c>> \o order_by_desc(S \ {c})

\* Mutant of slice_from: the slice starts one row earlier.
slice_from_one_before(seq, k) ==
    IF k > Len(seq) + 1 THEN <<>> ELSE SubSeq(seq, k, Len(seq))

\* seq[k:]
slice_from(seq, k) ==
    IF k >= Len(seq) THEN <<>> ELSE SubSeq(seq, k + 1, Len(seq))

elements(seq) == {seq[i] : i \in 1..Len(seq)}

\* Mutant of new_content: the body is not handed over.
new_content_without_body(page, language, ctype, body, t) ==
    [id |-> t, page |-> page, language |-> language, type |-> ctype,
     body |-> "", creation_date |-> t]

\* self.model(page=..., language=..., body=..., type=...) saved at instant t.
new_content(page, language, ctype, body, t) ==
    [id |-> t, page |-> page, language |-> language, type |-> ctype,
     body |-> body, creation_date |-> t]

\* Mutant of oldest_content: the slice starts one row too late.
oldest_content_off_by_one(S) ==
    IF settings.GERBI_CONTENT_REVISION_DEPTH # 0
    THEN elements(slice_from(order_by_desc(S),
                             settings.GERBI_CONTENT_REVISION_DEPTH + 1))
    ELSE {}

\* The revisions deleted after a creation (lines 196-201).
oldest_content(S) ==
    IF settings.GERBI_CONTENT_REVISION_DEPTH # 0
    THEN elements(slice_from(order_by_desc(S),
                             settings.GERBI_CONTENT_REVISION_DEPTH))
    ELSE {}

\* What the last call was. run is the set of bodies handed to the current
\* run of consecutive create_content_if_changed calls on one tuple, and
\* distinct tells whether these calls had pairwise distinct bodies.
call(op, args, ret, created, run, distinct) ==
    [op |-> op, args |-> args, ret |-> ret, created |-> created,
     run |-> run, distinct |-> distinct]

set_or_create_content(page, language, ctype, body) ==
    LET S == filter(page, language, ctype)
        b == sanitized(body)
    IN  \/ /\ S # {}
           /\ \E content \in latest(S) :
                LET saved == [content EXCEPT !.body = b]
                IN  /\ contents' = (contents \ {content}) \cup {saved}
                    /\ last' = call("set_or_create_content",
                                    <<page, language, ctype, body>>,
                                    saved, FALSE, {}, TRUE)
           /\ UNCHANGED <<others, born, now>>
        \/ /\ S = {}
           /\ now <= MaxTime
           /\ LET content == new_content(page, language, ctype, b, now)
              IN  /\ contents' = contents \cup {content}
                  /\ born' = born \cup {<<page, language, ctype, now>>}
                  /\ last' = call("set_or_create_content",
                                  <<page, language, ctype, body>>,
                                  content, TRUE, {}, TRUE)
           /\ now' = now + 1
           /\ UNCHANGED others

\* Mutant of body_equal: the Content object compared with the body string.
body_equal_never(content, body) ==
    FALSE

\* content.body == body (line 188)
body_equal(content, body) ==
    content.body = body

\* The run of create_content_if_changed calls after one more call.
same_tuple(page, language, ctype) ==
    /\ last.op = "create_content_if_changed"
    /\ last.args[1] = page /\ last.args[2] = language /\ last.args[3] = ctype

next_run(page, language, ctype, body) ==
    IF same_tuple(page, language, ctype) THEN last.run \cup {body}
    ELSE {body}

next_distinct(page, language, ctype, body) ==
    IF same_tuple(page, language, ctype)
    THEN last.distinct /\ body \notin last.run
    ELSE TRUE

create_content_if_changed(page, language, ctype, body) ==
    LET S == filter(page, language, ctype)
        b == sanitized(body)
        run == next_run(page, language, ctype, body)
        distinct == next_distinct(page, language, ctype, body)
    IN  \/ /\ S # {}
           /\ \E content \in latest(S) :
                /\ body_equal(content, b)
                /\ last' = call("create_content_if_changed",
                                <<page, language, ctype, body>>,
                                content, FALSE, run, distinct)
           /\ UNCHANGED <<others, contents, born, now>>
        \/ /\ \/ S = {}
              \/ \E content \in latest(S) : ~body_equal(content, b)
           /\ now <= MaxTime
           /\ LET content == new_content(page, language, ctype, b, now)
                  T == S \cup {content}
              IN  /\ contents' = (contents \cup {content}) \ oldest_content(T)
                  /\ born' = born \cup {<<page, language, ctype, now>>}
                  /\ last' = call("create_content_if_changed",
                                  <<page, language, ctype, body>>,
                                  content, TRUE, run, distinct)
           /\ now' = now + 1
           /\ UNCHANGED others

\* Mutant of content_objects: any row of the tuple is returned.
content_objects_any(page, language, ctype) ==
    IF filter(page, language, ctype) = {} THEN {NoContent}
    ELSE filter(page, language, ctype)

\* Mutant of content_objects: freeze_date is not looked at.
content_objects_unfrozen(page, language, ctype) ==
    LET S == filter(page, language, ctype)
    IN  IF S = {} THEN {NoContent} ELSE latest(S)

\* get_content_object: the record returned, NoContent for DoesNotExist.
content_objects(page, language, ctype) ==
    LET S == {c \in filter(page, language, ctype) :
                pages[page].freeze_date # 0
                    => c.creation_date <= pages[page].freeze_date}
    IN  IF S = {} THEN {NoContent} ELSE latest(S)

get_content_object(page, language, ctype) ==
    /\ \E content \in content_objects(page, language, ctype) :
         last' = call("get_content_object", <<page, language, ctype>>,
                      content, FALSE, {}, TRUE)
    /\ UNCHANGED <<others, contents, born, now>>

\* filter_link rewrites the internal links of a body; a body without markup
\* comes back as given.
filter_link(content, page, language, ctype) ==
    CASE content = "<a>" -> "<a href>"
      [] content = "<A>" -> "<A href>"
      [] content = "<a></a>" -> "<a href></a>"
      [] OTHER -> content

\* Mutant of frozen: the flag of the key is always 0.
frozen_never(page) ==
    0

\* int(bool(page.freeze_date))
frozen(page) ==
    IF pages[page].freeze_date # 0 THEN 1 ELSE 0

\* The content dicts lines 244-250 can build: every configured language
\* mapped to the body get_content_object returns, '' on DoesNotExist.
content_dicts(page, ctype) ==
    {d \in [elements(GERBI_LANGUAGES) ->
               {c.body : c \in contents \cup {NoContent}}] :
        \A l \in elements(GERBI_LANGUAGES) :
           \E c \in content_objects(page, l, ctype) :
              d[l] = IF c = NoContent THEN "" ELSE c.body}

\* Mutant of truthy: no dict read counts as found.
truthy_never(d) ==
    FALSE

\* A dict is truthy when it has a key.
truthy(d) == DOMAIN d # {}

\* Mutant of body_of: the fallback loop is never entered.
body_of_own_language(d, page, language, ctype, language_fallback) ==
    IF language \in DOMAIN d /\ d[language] # ""
    THEN filter_link(d[language], page, language, ctype)
    ELSE ""

\* Mutant of first_body: only the last language is looked at.
last_body(d, i, page, ctype, languages) ==
    LET l == languages[Len(languages)]
    IN  IF l \in DOMAIN d /\ d[l] # "" THEN filter_link(d[l], page, l, ctype)
        ELSE ""

\* Lines 254-262: the body returned from a content dict.
RECURSIVE first_body(_, _, _, _, _)
first_body(d, i, page, ctype, languages) ==
    IF i > Len(languages) THEN ""
    ELSE IF languages[i] \in DOMAIN d /\ d[languages[i]] # ""
         THEN filter_link(d[languages[i]], page, languages[i], ctype)
         ELSE first_body(d, i + 1, page, ctype, languages)

body_of(d, page, language, ctype, language_fallback) ==
    IF language \in DOMAIN d /\ d[language] # ""
    THEN filter_link(d[language], page, language, ctype)
    ELSE IF language_fallback
         THEN first_body(d, 1, page, ctype, GERBI_LANGUAGES)
         ELSE ""

get_content(page, language, ctype, language_fallback) ==
    LET lang == IF language = "" THEN GERBI_DEFAULT_LANGUAGE ELSE language
        key == <<page, ctype, frozen(page)>>
        found == IF truthy(memo[page][key]) THEN memo[page][key]
                 ELSE cache[key]
    IN  \/ /\ truthy(found)
           /\ last' = call("get_content",
                           <<page, language, ctype, language_fallback>>,
                           body_of(found, page, lang, ctype,
                                   language_fallback),
                           FALSE, {}, TRUE)
           /\ UNCHANGED <<calls, settings, pages, contents, born, now, cache,
                          memo, aliases>>
        \/ /\ ~truthy(found)
           /\ \E content_dict \in content_dicts(page, ctype) :
                /\ memo' = [memo EXCEPT ![page][key] = content_dict]
                /\ cache' = [cache EXCEPT ![key] = content_dict]
                /\ last' = call("get_content",
                                <<page, language, ctype, language_fallback>>,
                                body_of(content_dict, page, lang, ctype,
                                        language_fallback),
                                TRUE, {}, TRUE)
           /\ UNCHANGED <<calls, settings, pages, contents, born, now,
                          aliases>>

(***************************************************************************)
(* The collaborators of get_content.                                       *)
(***************************************************************************)
\* The cache backend drops an entry (expiry, or an eviction by the caller).
cache_delete(key) ==
    /\ truthy(cache[key])
    /\ cache' = [cache EXCEPT ![key] = NoDict]
    /\ last' = call("cache_delete", key, NoContent, FALSE, {}, TRUE)
    /\ UNCHANGED <<calls, settings, pages, contents, born, now, memo,
                   aliases>>

\* A later request loads the page again: a new Page object, _content_dict
\* None.
load_page(page) ==
    /\ memo[page] # NoMemo
    /\ memo' = [memo EXCEPT ![page] = NoMemo]
    /\ last' = call("load_page", <<page>>, NoContent, FALSE, {}, TRUE)
    /\ UNCHANGED <<calls, settings, pages, contents, born, now, cache,
                   aliases>>

(***************************************************************************)
(* create_content_if_changed called by concurrent callers: the method      *)
(* takes no lock and runs in no transaction, so that another caller may    *)
(* act between any two queries of it.  One action per query.               *)
(***************************************************************************)
\* calls with the call of caller r replaced.
step(r, c) == [calls EXCEPT ![r] = c]

\* Lines 183-184: the call is entered, the body sanitized.
cc_begin(r, page, language, ctype, body) ==
    /\ calls[r].pc = "idle"
    /\ calls' = step(r, [NoCall EXCEPT
                            !.pc = "latest",
                            !.args = <<page, language, ctype,
                                       sanitized(body)>>])
    /\ UNCHANGED <<settings, pages, contents, born, now, cache, memo,
                   aliases, last>>

\* Lines 185-191: the latest row is read; the call returns it when it has
\* the body, and goes on to create a row when it has not or when there is
\* no row.
cc_latest(r) ==
    LET a == calls[r].args
        S == filter(a[1], a[2], a[3])
    IN  /\ calls[r].pc = "latest"
        /\ \/ /\ S # {}
              /\ \E content \in latest(S) :
                   IF body_equal(content, a[4])
                   THEN calls' = step(r, [calls[r] EXCEPT
                                             !.pc = "done",
                                             !.seen = content,
                                             !.content = content])
                   ELSE calls' = step(r, [calls[r] EXCEPT
                                             !.pc = "model",
                                             !.seen = content])
           \/ /\ S = {}
              /\ calls' = step(r, [calls[r] EXCEPT !.pc = "model"])
        /\ UNCHANGED <<settings, pages, contents, born, now, cache, memo,
                       aliases, last>>

\* Line 192: self.create builds the Content; creation_date is read from the
\* clock.
cc_model(r) ==
    LET a == calls[r].args
    IN  /\ calls[r].pc = "model"
        /\ now <= MaxTime
        /\ calls' = step(r, [calls[r] EXCEPT
                                !.pc = "save",
                                !.content =
                                   new_content(a[1], a[2], a[3], a[4], now)])
        /\ now' = now + 1
        /\ UNCHANGED <<settings, pages, contents, born, cache, memo,
                       aliases, last>>

\* Lines 192-196: self.create saves the Content.
cc_save(r) ==
    LET a == calls[r].args
        content == calls[r].content
    IN  /\ calls[r].pc = "save"
        /\ contents' = contents \cup {content}
        /\ born' = born \cup {<<a[1], a[2], a[3], content.creation_date>>}
        /\ calls' = step(r, [calls[r] EXCEPT
                                !.pc =
                                   IF settings.GERBI_CONTENT_REVISION_DEPTH
                                         # 0
                                   THEN "order_by" ELSE "done",
                                !.created = TRUE])
        /\ UNCHANGED <<settings, pages, now, cache, memo, aliases, last>>

\* Lines 197-200: the queryset of the old revisions is evaluated when the
\* loop starts.
cc_order_by(r) ==
    LET a == calls[r].args
    IN  /\ calls[r].pc = "order_by"
        /\ calls' = step(r, [calls[r] EXCEPT
                 !.pc = "delete",
                 !.oldest_content =
                    slice_from(order_by_desc(filter(a[1], a[2], a[3])),
                               settings.GERBI_CONTENT_REVISION_DEPTH)])
        /\ UNCHANGED <<settings, pages, contents, born, now, cache, memo,
                       aliases, last>>

\* Lines 200-203: one row of the loop is deleted (a row that is gone
\* already deletes nothing); after the last one the call returns.
cc_delete(r) ==
    /\ calls[r].pc = "delete"
    /\ IF calls[r].oldest_content = <<>>
       THEN /\ calls' = step(r, [calls[r] EXCEPT !.pc = "done"])
            /\ UNCHANGED contents
       ELSE /\ contents' = contents \ {Head(calls[r].oldest_content)}
            /\ calls' = step(r, [calls[r] EXCEPT
                                    !.oldest_content =
                                       Tail(calls[r].oldest_content)])
    /\ UNCHANGED <<settings, pages, born, now, cache, memo, aliases, last>>

\* The caller is done with the value returned.
cc_return(r) ==
    /\ calls[r].pc = "done"
    /\ calls' = step(r, NoCall)
    /\ UNCHANGED <<settings, pages, contents, born, now, cache, memo,
                   aliases, last>>

(***************************************************************************)
(* get_content called by concurrent callers on the live Page object: one   *)
(* action per read or write of the memo, the shared cache and the store.   *)
(***************************************************************************)
\* Lines 226-235: the language defaults, the key is built, the memo is read.
gc_begin(r, page, language, ctype, language_fallback) ==
    LET lang == IF language = "" THEN GERBI_DEFAULT_LANGUAGE ELSE language
        key == <<page, ctype, frozen(page)>>
    IN  /\ calls[r].pc = "idle"
        /\ calls' = step(r, [NoCall EXCEPT
                 !.pc = IF truthy(memo[page][key]) THEN "return"
                        ELSE "cache",
                 !.args = <<page, lang, ctype, language_fallback>>,
                 !.key = key,
                 !.content_dict = memo[page][key]])
        /\ UNCHANGED <<settings, pages, contents, born, now, cache, memo,
                       aliases, last>>

\* Lines 237-244: the shared cache is read; without dict an empty one is
\* started.
gc_cache(r) ==
    /\ calls[r].pc = "cache"
    /\ calls' = step(r, [calls[r] EXCEPT
             !.pc = IF truthy(cache[calls[r].key]) THEN "return"
                    ELSE "object",
             !.created = ~truthy(cache[calls[r].key]),
             !.content_dict = cache[calls[r].key]])
    /\ UNCHANGED <<settings, pages, contents, born, now, cache, memo,
                   aliases, last>>

\* Lines 245-250: get_content_object is called for the next language.
gc_object(r) ==
    LET a == calls[r].args
        d == calls[r].content_dict
        i == CHOOSE j \in 1..Len(GERBI_LANGUAGES) :
                /\ GERBI_LANGUAGES[j] \notin DOMAIN d
                /\ \A k \in 1..(j - 1) : GERBI_LANGUAGES[k] \in DOMAIN d
        lang == GERBI_LANGUAGES[i]
    IN  /\ calls[r].pc = "object"
        /\ \E content \in content_objects(a[1], lang, a[3]) :
             calls' = step(r, [calls[r] EXCEPT
                 !.pc = IF i = Len(GERBI_LANGUAGES) THEN "memo"
                        ELSE "object",
                 !.content_dict =
                    [l \in DOMAIN d \cup {lang} |->
                       IF l = lang
                       THEN IF content = NoContent THEN "" ELSE content.body
                       ELSE d[l]]])
        /\ UNCHANGED <<settings, pages, contents, born, now, cache, memo,
                       aliases, last>>

\* Line 251: the dict is put in the memo of the page.
gc_memo(r) ==
    /\ calls[r].pc = "memo"
    /\ memo' = [memo EXCEPT
                   ![calls[r].args[1]][calls[r].key] = calls[r].content_dict]
    /\ calls' = step(r, [calls[r] EXCEPT !.pc = "set"])
    /\ UNCHANGED <<settings, pages, contents, born, now, cache, aliases,
                   last>>

\* Line 252: cache.set(key, content_dict)
gc_set(r) ==
    /\ calls[r].pc = "set"
    /\ cache' = [cache EXCEPT ![calls[r].key] = calls[r].content_dict]
    /\ calls' = step(r, [calls[r] EXCEPT !.pc = "return"])
    /\ UNCHANGED <<settings, pages, contents, born, now, memo, aliases,
                   last>>

\* Lines 254-262: the body is taken from the dict and returned.
gc_return(r) ==
    LET a == calls[r].args
    IN  /\ calls[r].pc = "return"
        /\ calls' = step(r, [calls[r] EXCEPT
                 !.pc = "done",
                 !.body = body_of(calls[r].content_dict, a[1], a[2], a[3],
                                  a[4])])
        /\ UNCHANGED <<settings, pages, contents, born, now, cache, memo,
                       aliases, last>>

(***************************************************************************)
(* PageManager                                                             *)
(***************************************************************************)
\* A QuerySet of pages in the default ordering of Page, as a sequence.
RECURSIVE ordered(_)
ordered(S) ==
    IF S = {} THEN <<>>
    ELSE LET p == CHOOSE x \in S : \A y \in S : x <= y
         IN  <<p>> \o ordered(S \ {p})

\* on_site(): the pages of the current site when GERBI_USE_SITE_ID is set,
\* all pages otherwise.
on_site ==
    IF settings.GERBI_USE_SITE_ID
    THEN {p \in PageIds : pages[p].on_site}
    ELSE PageIds

\* Mutant of root: the site is not looked at.
root_of_any_site ==
    {p \in PageIds : pages[p].parent = 0}

\* root(): the pages without parent.
root ==
    {p \in on_site : pages[p].parent = 0}

\* get_slug: the last segment of the path, one trailing "/" put aside.
get_slug(path) ==
    LET p == IF Len(path) > 0 /\ path[Len(path)] = "/"
             THEN SubSeq(path, 1, Len(path) - 1) ELSE path
    IN  IF Len(p) = 0 \/ p[Len(p)] = "/" THEN "" ELSE p[Len(p)]

\* The rows of a queryset in the orders the database may give them.
listings(S) ==
    {f \in [1..Cardinality(S) -> S] :
        \A i, j \in 1..Cardinality(S) : f[i] = f[j] => i = j}

\* Mutant of get_page_ids_by_slug: only the latest slug of a page counts.
get_page_ids_by_latest_slug(slug) ==
    listings({c.page : c \in {x \in contents :
                /\ x.type = "slug" /\ x.body = slug
                /\ x \in latest(filter(x.page, x.language, "slug"))}})

\* Mutant of ids: the rows are not grouped by page.
ids_ungrouped(slug) ==
    {[page_id |-> c.page, max_creation_date |-> c.creation_date] :
        c \in {x \in contents : x.type = "slug" /\ x.body = slug}}

\* Lines 287-289: the "slug" rows of that body, grouped by page, each group
\* with its greatest creation date.
ids(slug) ==
    LET rows == {x \in contents : x.type = "slug" /\ x.body = slug}
    IN  {[page_id |-> p,
          max_creation_date |->
             (CHOOSE c \in latest({x \in rows : x.page = p}) : TRUE)
                .creation_date] :
            p \in {c.page : c \in rows}}

\* get_page_ids_by_slug: the lists it may return, one page id per group.
get_page_ids_by_slug(slug) ==
    {[i \in DOMAIN f |-> f[i].page_id] : f \in listings(ids(slug))}

page_ids_by_slug(slug) ==
    /\ \E page_ids \in get_page_ids_by_slug(slug) :
         last' = call("get_page_ids_by_slug", <<slug>>, page_ids, FALSE, {},
                      TRUE)
    /\ UNCHANGED <<calls, settings, pages, contents, born, now, cache, memo,
                   aliases>>

\* page.slug(lang): the slug of the page in that language, another
\* language's when it has none.
page_slug(page, lang) ==
    LET d == [l \in elements(GERBI_LANGUAGES) |->
                (CHOOSE c \in content_objects(page, l, "slug") : TRUE).body]
    IN  body_of(d, page, lang, "slug", TRUE)

\* page.get_complete_slug(lang): the slugs of the ancestors and of the page,
\* joined by "/".
RECURSIVE get_complete_slug(_, _)
get_complete_slug(page, lang) ==
    LET own == IF page_slug(page, lang) = "" THEN <<>>
               ELSE <<page_slug(page, lang)>>
    IN  IF pages[page].parent = 0 THEN own
        ELSE get_complete_slug(pages[page].parent, lang) \o <<"/">> \o own

\* Lines 106-109: one trailing and one leading "/" are stripped.
normalized(complete_path) ==
    LET p == IF Len(complete_path) > 0
                  /\ complete_path[Len(complete_path)] = "/"
             THEN SubSeq(complete_path, 1, Len(complete_path) - 1)
             ELSE complete_path
    IN  IF Len(p) > 0 /\ p[1] = "/" THEN SubSeq(p, 2, Len(p)) ELSE p

\* Mutant of pages_list: drafts are never left out.
pages_list_with_drafts(slug, exclude_drafts) ==
    LET page_ids == UNION {elements(l) : l \in get_page_ids_by_slug(slug)}
    IN  ordered(on_site \cap page_ids)

\* Lines 120-123: the candidate pages, in order.
pages_list(slug, exclude_drafts) ==
    LET page_ids == UNION {elements(l) : l \in get_page_ids_by_slug(slug)}
    IN  ordered({p \in on_site \cap page_ids :
                    exclude_drafts => pages[p].status # "DRAFT"})

\* Mutant of first_match: the first candidate is returned unchecked.
first_match_unchecked(candidates, i, lang, complete_path) ==
    candidates[i]

\* Lines 131-135: the first candidate from the i-th on whose complete slug is
\* the path, 0 (None) without one.
RECURSIVE first_match(_, _, _, _)
first_match(candidates, i, lang, complete_path) ==
    IF i > Len(candidates) THEN 0
    ELSE IF get_complete_slug(candidates[i], lang) = complete_path
         THEN candidates[i]
         ELSE first_match(candidates, i + 1, lang, complete_path)

\* The page from_path returns, 0 for None.
page_from_path(path, lang, exclude_drafts) ==
    LET complete_path == normalized(path)
        root_pages == ordered(root)
        candidates == pages_list(get_slug(complete_path), exclude_drafts)
    IN  IF complete_path = <<>>
        THEN IF Len(root_pages) > 0 THEN root_pages[1] ELSE 0
        ELSE IF Len(candidates) = 1
             THEN IF settings.GERBI_USE_STRICT_URL
                       /\ get_complete_slug(candidates[1], lang)
                             # complete_path
                  THEN 0
                  ELSE candidates[1]
             ELSE IF Len(candidates) > 1
                  THEN first_match(candidates, 1, lang, complete_path)
                  ELSE 0

from_path(complete_path, lang, exclude_drafts) ==
    /\ last' = call("from_path", <<complete_path, lang, exclude_drafts>>,
                    page_from_path(complete_path, lang, exclude_drafts),
                    FALSE, {}, TRUE)
    /\ UNCHANGED <<calls, settings, pages, contents, born, now, cache, memo,
                   aliases>>

(***************************************************************************)
(* PageAliasManager                                                        *)
(***************************************************************************)
NoAlias == [url |-> <<>>, page |-> 0]

\* normalize_url: a leading "/" is put when missing and a trailing one is
\* removed; the empty url is "/".
normalize_url(url) ==
    LET u == IF Len(url) = 0 \/ url[1] # "/" THEN <<"/">> \o url ELSE url
    IN  IF Len(u) > 1 /\ u[Len(u)] = "/" THEN SubSeq(u, 1, Len(u) - 1)
        ELSE u

\* PageAlias.objects.get(url=url): the rows found.
alias_get(url) ==
    {a \in aliases : a.url = url}

\* Mutant of first_url: the query string is not appended.
first_url_without_query(query, path) ==
    normalize_url(path)

\* Lines 310-314: the url looked up first.
first_url(query, path) ==
    IF query # "" THEN normalize_url(path) \o <<"?", query>>
    ELSE normalize_url(path)

\* Mutant of alias_found: an alias of another url is returned rather than
\* None.
alias_found_any(query, path) ==
    IF aliases # {} THEN aliases ELSE {NoAlias}

\* The alias from_path returns, NoAlias for None.
alias_found(query, path) ==
    IF alias_get(first_url(query, path)) # {}
    THEN alias_get(first_url(query, path))
    ELSE IF alias_get(normalize_url(path)) # {}
         THEN alias_get(normalize_url(path))
         ELSE {NoAlias}

alias_from_path(query, path, lang) ==
    /\ \E alias \in alias_found(query, path) :
         last' = call("alias_from_path", <<query, path, lang>>, alias,
                      FALSE, {}, TRUE)
    /\ UNCHANGED <<calls, settings, pages, contents, born, now, cache, memo,
                   aliases>>

\* An alias is saved for a url that has none (urls are unique), or deleted.
save_alias(url, page) ==
    /\ alias_get(url) = {}
    /\ aliases' = aliases \cup {[url |-> url, page |-> page]}
    /\ last' = call("save_alias", <<url, page>>, NoContent, TRUE, {}, TRUE)
    /\ UNCHANGED <<calls, settings, pages, contents, born, now, cache, memo>>

delete_alias(alias) ==
    /\ alias \in aliases
    /\ aliases' = aliases \ {alias}
    /\ last' = call("delete_alias", <<alias.url>>, NoContent, FALSE, {},
                    TRUE)
    /\ UNCHANGED <<calls, settings, pages, contents, born, now, cache, memo>>

(***************************************************************************)
(* Page                                                                    *)
(***************************************************************************)
\* An editor freezes a page at instant t, or unfreezes it (t = 0).
set_freeze_date(page, t) ==
    /\ pages' = [pages EXCEPT ![page].freeze_date = t]
    /\ last' = call("set_freeze_date", <<page, t>>, NoContent, FALSE,
                    {}, TRUE)
    /\ UNCHANGED <<calls, settings, contents, born, now, cache, memo,
                   aliases>>

(***************************************************************************)
(* The Content store: writes, reads of the latest record, freezing.        *)
(***************************************************************************)
StoreTuples == {<<1, "en", "title">>, <<1, "fr", "title">>}

\* Every body is written in "en"; "fr" holds a second tuple beside it.
StoreWrites ==
    {<<1, "en", "title", b>> : b \in Bodies} \cup {<<1, "fr", "title", "<a>">>}

StorePages == {1}

Init ==
    /\ settings \in
         [GERBI_SANITIZE_USER_INPUT : BOOLEAN,
          GERBI_CONTENT_REVISION_DEPTH : 0..MaxDepth,
          GERBI_USE_STRICT_URL : {FALSE},
          GERBI_USE_SITE_ID : {FALSE}]
    /\ pages = [p \in PageIds |-> NewPage]
    /\ contents = {}
    /\ born = {}
    /\ now = 1
    /\ cache = [k \in CacheKeys |-> NoDict]
    /\ memo = [p \in PageIds |-> NoMemo]
    /\ aliases = {}
    /\ calls = [r \in Callers |-> NoCall]
    /\ last = call("init", <<>>, NoContent, FALSE, {}, TRUE)

Next ==
    \/ \E w \in StoreWrites : set_or_create_content(w[1], w[2], w[3], w[4])
    \/ \E w \in StoreWrites :
          create_content_if_changed(w[1], w[2], w[3], w[4])
    \/ \E k \in StoreTuples : get_content_object(k[1], k[2], k[3])
    \/ \E p \in StorePages, t \in 0..MaxTime : set_freeze_date(p, t)

Spec == Init /\ [][Next]_vars

(***************************************************************************)
(* The content cache: get_content over a store that is written, frozen     *)
(* and read through the memo and the shared cache.                         *)
(***************************************************************************)
\* Revisions are created with an empty and a non-empty body in each
\* configured language, the bodies of the two languages differing.
CacheCreates ==
    {<<1, "en", "title", "">>, <<1, "en", "title", "<a>">>,
     <<1, "fr", "title", "">>, <<1, "fr", "title", "<A>">>}

CacheSets ==
    {<<1, "en", "title", "">>, <<1, "fr", "title", "<A>">>}

InitCache ==
    /\ settings \in
         [GERBI_SANITIZE_USER_INPUT : {FALSE},
          GERBI_CONTENT_REVISION_DEPTH : {0},
          GERBI_USE_STRICT_URL : {FALSE},
          GERBI_USE_SITE_ID : {FALSE}]
    /\ pages = [p \in PageIds |-> NewPage]
    /\ contents = {}
    /\ born = {}
    /\ now = 1
    /\ cache = [k \in CacheKeys |-> NoDict]
    /\ memo = [p \in PageIds |-> NoMemo]
    /\ aliases = {}
    /\ calls = [r \in Callers |-> NoCall]
    /\ last = call("init", <<>>, NoContent, FALSE, {}, TRUE)

NextCache ==
    \/ \E w \in CacheSets :
          now < MaxTime /\ set_or_create_content(w[1], w[2], w[3], w[4])
    \/ \E w \in CacheCreates :
          now < MaxTime /\ create_content_if_changed(w[1], w[2], w[3], w[4])
    \/ \E t \in 0..(MaxTime - 1) : set_freeze_date(1, t)
    \/ \E l \in {"", "fr", "de"}, fallback \in BOOLEAN :
          get_content(1, l, "title", fallback)
    \/ \E k \in CacheKeys : cache_delete(k)
    \/ load_page(1)

SpecCache == InitCache /\ [][NextCache]_vars

(***************************************************************************)
(* The path resolver: pages in a tree, on or off the site, drafts or not,  *)
(* whose slugs are rewritten, and paths resolved.                          *)
(***************************************************************************)
\* The trees: a page's parent is a page of a smaller id, or none.  Every page
\* was given a slug when it was made (as populate_pages does), page p at
\* instant p.
PageTrees ==
    {f \in [PageIds -> PageIds \cup {0}] : \A p \in PageIds : f[p] < p}

InitPath ==
    /\ settings \in
         [GERBI_SANITIZE_USER_INPUT : {FALSE},
          GERBI_CONTENT_REVISION_DEPTH : {0},
          GERBI_USE_STRICT_URL : BOOLEAN,
          GERBI_USE_SITE_ID : BOOLEAN]
    /\ \E f \in PageTrees, drafts \in SUBSET PageIds,
          off_site \in SUBSET PageIds :
          /\ ~settings.GERBI_USE_SITE_ID => off_site = {}
          /\ settings.GERBI_USE_SITE_ID => off_site # {}
          /\ pages = [p \in PageIds |->
                        [parent |-> f[p],
                         status |-> IF p \in drafts THEN "DRAFT"
                                    ELSE "PUBLISHED",
                         on_site |-> p \notin off_site,
                         freeze_date |-> 0]]
    /\ \E slug \in [PageIds -> Slugs] :
          /\ contents = {new_content(p, "en", "slug", slug[p], p) :
                            p \in PageIds}
          /\ born = {<<p, "en", "slug", p>> : p \in PageIds}
    /\ now = Cardinality(PageIds) + 1
    /\ cache = [k \in CacheKeys |-> NoDict]
    /\ memo = [p \in PageIds |-> NoMemo]
    /\ aliases = {}
    /\ calls = [r \in Callers |-> NoCall]
    /\ last = call("init", <<>>, NoContent, FALSE, {}, TRUE)

\* A resolution changes nothing but last: resolving again from the state a
\* resolution left reaches no state that the first one does not, and is left
\* out.
NextPath ==
    \/ \E p \in PageIds, s \in Slugs :
          create_content_if_changed(p, "en", "slug", s)
    \/ \E path \in Paths, exclude_drafts \in BOOLEAN :
          last.op # "from_path" /\ from_path(path, "en", exclude_drafts)

SpecPath == InitPath /\ [][NextPath]_vars

(***************************************************************************)
(* The alias resolver: aliases saved and deleted, requests resolved.       *)
(***************************************************************************)
\* QUERY_STRING of a request: none (""), or one of two.
Queries == {"", "q", "r"}

\* The urls aliases are saved under: a path, alone or with a query string.
AliasUrls ==
    {u \o w : u \in {<<"/">>, <<"/", "a">>},
              w \in {<<>>, <<"?", "q">>, <<"?", "r">>}}

InitAlias ==
    /\ settings \in
         [GERBI_SANITIZE_USER_INPUT : {FALSE},
          GERBI_CONTENT_REVISION_DEPTH : {0},
          GERBI_USE_STRICT_URL : {FALSE},
          GERBI_USE_SITE_ID : {FALSE}]
    /\ pages = [p \in PageIds |-> NewPage]
    /\ contents = {}
    /\ born = {}
    /\ now = 1
    /\ cache = [k \in CacheKeys |-> NoDict]
    /\ memo = [p \in PageIds |-> NoMemo]
    /\ aliases = {}
    /\ calls = [r \in Callers |-> NoCall]
    /\ last = call("init", <<>>, NoContent, FALSE, {}, TRUE)

\* As in NextPath, a resolution is not followed by another one.
NextAlias ==
    \/ \E url \in AliasUrls, p \in PageIds : save_alias(url, p)
    \/ \E alias \in aliases : delete_alias(alias)
    \/ \E query \in Queries, path \in Paths :
          last.op # "alias_from_path" /\ alias_from_path(query, path, "en")

SpecAlias == InitAlias /\ [][NextAlias]_vars

(***************************************************************************)
(* The slug index: slugs written with create_content_if_changed, pruned to *)
(* the revision depth, and looked up with get_page_ids_by_slug.            *)
(***************************************************************************)
\* Slugs of two pages in "en", a slug of page 1 in "fr", and a title that
\* reads like a slug.
SlugWrites ==
    {<<p, "en", "slug", s>> : p \in PageIds, s \in Slugs}
        \cup {<<1, "fr", "slug", "a">>, <<2, "en", "title", "a">>}

InitSlug ==
    /\ settings \in
         [GERBI_SANITIZE_USER_INPUT : {FALSE},
          GERBI_CONTENT_REVISION_DEPTH : 0..MaxDepth,
          GERBI_USE_STRICT_URL : {FALSE},
          GERBI_USE_SITE_ID : {FALSE}]
    /\ pages = [p \in PageIds |-> NewPage]
    /\ contents = {}
    /\ born = {}
    /\ now = 1
    /\ cache = [k \in CacheKeys |-> NoDict]
    /\ memo = [p \in PageIds |-> NoMemo]
    /\ aliases = {}
    /\ calls = [r \in Callers |-> NoCall]
    /\ last = call("init", <<>>, NoContent, FALSE, {}, TRUE)

\* A lookup changes nothing but last, and is not followed by another one.
NextSlug ==
    \/ \E w \in SlugWrites :
          create_content_if_changed(w[1], w[2], w[3], w[4])
    \/ \E slug \in Slugs :
          last.op # "get_page_ids_by_slug" /\ page_ids_by_slug(slug)

SpecSlug == InitSlug /\ [][NextSlug]_vars

(***************************************************************************)
(* The two resolvers side by side: a request path is resolved to a page,   *)
(* or to an alias.                                                         *)
(***************************************************************************)
ResolveUrls == {<<"/", "a">>, <<"/", "a", "?", "q">>}

NextResolve ==
    \/ \E path \in Paths, exclude_drafts \in BOOLEAN :
          /\ last.op \notin {"from_path", "alias_from_path"}
          /\ from_path(path, "en", exclude_drafts)
    \/ \E query \in {"", "q"}, path \in Paths :
          /\ last.op \notin {"from_path", "alias_from_path"}
          /\ alias_from_path(query, path, "en")
    \/ \E url \in ResolveUrls : save_alias(url, 1)
    \/ \E alias \in aliases : delete_alias(alias)

SpecResolve == InitPath /\ [][NextResolve]_vars

(***************************************************************************)
(* The Content store under concurrent create_content_if_changed calls on   *)
(* one tuple.                                                              *)
(***************************************************************************)
RaceBodies == {"<a>", "<a></a>"}

InitRace ==
    /\ settings \in
         [GERBI_SANITIZE_USER_INPUT : {FALSE},
          GERBI_CONTENT_REVISION_DEPTH : 0..MaxDepth,
          GERBI_USE_STRICT_URL : {FALSE},
          GERBI_USE_SITE_ID : {FALSE}]
    /\ pages = [p \in PageIds |-> NewPage]
    /\ contents = {}
    /\ born = {}
    /\ now = 1
    /\ cache = [k \in CacheKeys |-> NoDict]
    /\ memo = [p \in PageIds |-> NoMemo]
    /\ aliases = {}
    /\ calls = [r \in Callers |-> NoCall]
    /\ last = call("init", <<>>, NoContent, FALSE, {}, TRUE)

NextRace ==
    \E r \in Callers :
       \/ \E body \in RaceBodies : cc_begin(r, 1, "en", "title", body)
       \/ cc_latest(r)
       \/ cc_model(r)
       \/ cc_save(r)
       \/ cc_order_by(r)
       \/ cc_delete(r)
       \/ cc_return(r)

SpecRace == InitRace /\ [][NextRace]_vars

(***************************************************************************)
(* get_content under concurrent callers.  The store, the page and the      *)
(* cache backend change between the requests only: while a caller is in a  *)
(* call nothing is written, frozen, evicted or reloaded.                   *)
(***************************************************************************)
MissCreates ==
    {<<1, "en", "title", "">>, <<1, "en", "title", "<a>">>,
     <<1, "fr", "title", "<A>">>}

\* One caller asks for the default language, the other one for "fr".
MissCalls == {<<"r1", "">>, <<"r2", "fr">>}

Idle == \A r \in Callers : calls[r].pc = "idle"

NextMiss ==
    \/ \E w \in MissCreates :
          /\ Idle /\ now < MaxTime
          /\ create_content_if_changed(w[1], w[2], w[3], w[4])
    \/ \E t \in 0..(MaxTime - 1) : Idle /\ set_freeze_date(1, t)
    \/ \E k \in CacheKeys : Idle /\ cache_delete(k)
    \/ Idle /\ load_page(1)
    \/ \E r \in Callers :
          \/ \E c \in MissCalls :
                c[1] = r /\ gc_begin(r, 1, c[2], "title", TRUE)
          \/ gc_cache(r)
          \/ gc_object(r)
          \/ gc_memo(r)
          \/ gc_set(r)
          \/ gc_return(r)
          \/ cc_return(r)

SpecMiss == InitCache /\ [][NextMiss]_vars

(***************************************************************************)
(* Properties.  The helpers below restate what the claims speak of without *)
(* using the operators of the model above.                                 *)
(***************************************************************************)
\* The Content rows of one (page, language, type) tuple.
Revisions(page, language, ctype) ==
    {c \in contents :
        c.page = page /\ c.language = language /\ c.type = ctype}

\* The row of a non-empty set of rows that was created last.
Newest(S) ==
    CHOOSE c \in S : \A d \in S : d.creation_date <= c.creation_date

\* The instants at which a row of the tuple was ever created.
Born(page, language, ctype) ==
    {t \in 1..now : <<page, language, ctype, t>> \in born}

\* The body a write stores when sanitization is, or is not, configured.
Stored(body) ==
    IF settings.GERBI_SANITIZE_USER_INPUT THEN sanitize(body) ELSE body

IsWrite(c) ==
    c.op \in {"set_or_create_content", "create_content_if_changed"}

\* C1: a create_content_if_changed call that directly follows a
\* create_content_if_changed call with the same page, language, type and body
\* creates no Content and returns the latest row of the tuple, unchanged: the
\* two calls together create at most one revision.
C1_RepeatedCreateIsNoOp ==
    [][(/\ last.op = "create_content_if_changed"
        /\ last'.op = "create_content_if_changed"
        /\ last'.args = last.args)
       => /\ contents' = contents
          /\ born' = born
          /\ ~last'.created
          /\ last'.ret \in contents
          /\ last'.ret =
                Newest(Revisions(last.args[1], last.args[2], last.args[3]))
          /\ last'.ret.body = Stored(last.args[4])]_vars

\* Two consecutive calls with the same body were made, the first created the
\* revision and the second returned it.
C1_Witness ==
    /\ last.op = "create_content_if_changed"
    /\ last.run = {last.args[4]}
    /\ ~last.distinct
    /\ ~last.created
    /\ last.ret.creation_date = now - 1
    /\ last.ret.body = Stored(last.args[4])

\* The premise of C2: the current run of create_content_if_changed calls on a
\* tuple has N > K calls with pairwise distinct bodies, K > 0.
C2_Run ==
    /\ last.op = "create_content_if_changed"
    /\ settings.GERBI_CONTENT_REVISION_DEPTH > 0
    /\ last.distinct
    /\ Cardinality(last.run) > settings.GERBI_CONTENT_REVISION_DEPTH

\* The conclusion of C2: the tuple holds exactly K rows, and no row of the
\* tuple ever created is newer than one of them without being one of them.
C2_KeepsNewestK ==
    LET R == Revisions(last.args[1], last.args[2], last.args[3])
        B == Born(last.args[1], last.args[2], last.args[3])
        kept == {c.creation_date : c \in R}
    IN  /\ Cardinality(R) = settings.GERBI_CONTENT_REVISION_DEPTH
        /\ kept \subseteq B
        /\ \A t \in B \ kept : \A k \in kept : t < k

\* C2 as stated: after N > K sequential create_content_if_changed calls with
\* pairwise distinct bodies on a tuple, the tuple holds exactly the K most
\* recently created revisions.
C2_AsStated ==
    C2_Run => C2_KeepsNewestK

\* C2 amended: the same, for bodies that are pairwise distinct after
\* sanitization when GERBI_SANITIZE_USER_INPUT is set.
C2_DistinctStoredBodies ==
    (C2_Run /\ Cardinality({Stored(b) : b \in last.run})
                  = Cardinality(last.run))
        => C2_KeepsNewestK

\* N = K + 1 calls were made with sanitization on, the last one pruned the
\* oldest revision.
C2_Witness ==
    /\ C2_Run
    /\ settings.GERBI_SANITIZE_USER_INPUT
    /\ Cardinality({Stored(b) : b \in last.run}) = Cardinality(last.run)
    /\ last.created
    /\ Cardinality(Born(last.args[1], last.args[2], last.args[3]))
          > settings.GERBI_CONTENT_REVISION_DEPTH

\* C3: get_content_object on a page frozen at T returns the latest row of the
\* tuple among those created at or before T, never a later one, and
\* DoesNotExist when there is none; on a page that is not frozen it returns
\* the latest row of the tuple.
C3_FrozenLatest ==
    last.op = "get_content_object" =>
        LET R == Revisions(last.args[1], last.args[2], last.args[3])
            T == pages[last.args[1]].freeze_date
            V == IF T = 0 THEN R ELSE {c \in R : c.creation_date <= T}
        IN  /\ T # 0 /\ last.ret # NoContent => last.ret.creation_date <= T
            /\ V = {} <=> last.ret = NoContent
            /\ V # {} => last.ret = Newest(V)

\* A frozen page has a revision created after its freeze date and an older
\* one, which is the one returned.
C3_Witness ==
    /\ last.op = "get_content_object"
    /\ pages[last.args[1]].freeze_date # 0
    /\ last.ret # NoContent
    /\ \E c \in Revisions(last.args[1], last.args[2], last.args[3]) :
          c.creation_date > pages[last.args[1]].freeze_date

\* C4: for a page frozen at T, no set_or_create_content or
\* create_content_if_changed call made after T changes what
\* get_content_object returns for any tuple of the page.
C4_FrozenViewPinned ==
    [][\A p \in PageIds :
          (/\ IsWrite(last')
           /\ last'.args[1] = p
           /\ pages[p].freeze_date # 0
           /\ pages[p].freeze_date < now)
          => \A l \in {"en", "fr"}, t \in {"title", "slug"} :
               content_objects(p, l, t)' = content_objects(p, l, t)]_vars

\* C10 as stated: set_or_create_content on a tuple that has a row keeps the
\* number of rows of the tuple and overwrites only the body of the row created
\* last, with the given body; on a tuple without rows it creates exactly one
\* row with the given body.
C10_Effect(page, language, ctype, body) ==
    LET R == Revisions(page, language, ctype)
    IN  IF R # {}
        THEN /\ contents' = (contents \ {Newest(R)})
                               \cup {[Newest(R) EXCEPT !.body = body]}
             /\ Cardinality(Revisions(page, language, ctype)')
                   = Cardinality(R)
             /\ ~last'.created
        ELSE /\ \E c \in contents' :
                  /\ contents' = contents \cup {c}
                  /\ c.page = page /\ c.language = language
                  /\ c.type = ctype /\ c.body = body
             /\ Cardinality(contents') = Cardinality(contents) + 1
             /\ last'.created

C10_AsStated ==
    [][\A p \in PageIds, l \in {"en", "fr"}, t \in {"title", "slug"},
          b \in Bodies :
          (/\ last'.op = "set_or_create_content"
           /\ last'.args = <<p, l, t, b>>)
          => C10_Effect(p, l, t, b)]_vars

\* C10 amended: the same, the body written being the given body after
\* sanitization when GERBI_SANITIZE_USER_INPUT is set.
C10_OverwritesLatestOnly ==
    [][\A p \in PageIds, l \in {"en", "fr"}, t \in {"title", "slug"},
          b \in Bodies :
          (/\ last'.op = "set_or_create_content"
           /\ last'.args = <<p, l, t, b>>)
          => C10_Effect(p, l, t, Stored(b))]_vars

\* set_or_create_content overwrote the latest of two revisions with a body
\* that sanitization changed.
C10_Witness ==
    /\ last.op = "set_or_create_content"
    /\ ~last.created
    /\ last.ret.body # last.args[4]
    /\ Cardinality(Revisions(last.args[1], last.args[2], last.args[3])) > 1
    /\ last.ret = Newest(Revisions(last.args[1], last.args[2], last.args[3]))

\* The configured languages.
Configured == {GERBI_LANGUAGES[i] : i \in 1..Len(GERBI_LANGUAGES)}

\* The language get_content looks up: the default one for a missing language.
Asked(language) ==
    IF language = "" THEN GERBI_DEFAULT_LANGUAGE ELSE language

\* The body of the latest row of a tuple in the Content store, "" without row.
LatestBody(page, language, ctype) ==
    IF Revisions(page, language, ctype) = {} THEN ""
    ELSE Newest(Revisions(page, language, ctype)).body

\* The same among the rows a frozen page shows.
ShownBody(page, language, ctype) ==
    LET T == pages[page].freeze_date
        V == {c \in Revisions(page, language, ctype) :
                 T # 0 => c.creation_date <= T}
    IN  IF V = {} THEN "" ELSE Newest(V).body

\* The content dict the last get_content call read: the memo entry of its
\* key, else the shared cache entry.
DictRead ==
    LET page == last.args[1]
        key == <<page, last.args[3],
                 IF pages[page].freeze_date # 0 THEN 1 ELSE 0>>
    IN  IF DOMAIN memo[page][key] # {} THEN memo[page][key] ELSE cache[key]

\* What C5 says of a call with language_fallback=True, read on the bodies
\* body(l) of the configured languages l.
C5_Fallback(body(_)) ==
    LET L == Asked(last.args[2])
        own == IF L \in Configured THEN body(L) ELSE ""
    IN  /\ (own = "" /\ \E l \in Configured \ {L} : body(l) # "")
              => last.ret # ""
        /\ (\A l \in Configured : body(l) = "") => last.ret = ""

\* C5 as stated: with language_fallback=True get_content returns a non-empty
\* body when the latest body of L in the Content store is empty or absent
\* and another configured language has a non-empty latest body, and "" when
\* all have none, after any sequence of writes and get_content calls.
C5_AsStated ==
    (last.op = "get_content" /\ last.args[4]) =>
        LET body(l) == LatestBody(last.args[1], l, last.args[3])
        IN  C5_Fallback(body)

\* C5 amended: the same holds of the bodies in the content dict the call
\* reads (the memo or shared cache entry of the key, which later writes do
\* not refresh); the dict built when both miss maps every configured
\* language to the body get_content_object returns, which is the latest
\* body of the store when the page is not frozen.
C5_FallbackOnDictRead ==
    (last.op = "get_content" /\ last.args[4]) =>
        LET d == DictRead
            body(l) == d[l]
            shown(l) == ShownBody(last.args[1], l, last.args[3])
            stored(l) == LatestBody(last.args[1], l, last.args[3])
        IN  /\ DOMAIN d = Configured
            /\ C5_Fallback(body)
            /\ last.created => \A l \in Configured : d[l] = shown(l)
            /\ (last.created /\ pages[last.args[1]].freeze_date = 0)
                  => C5_Fallback(stored)

\* get_content fell back to another language on a cached dict that the
\* store no longer agrees with.
C5_Witness ==
    /\ last.op = "get_content" /\ last.args[4]
    /\ ~last.created
    /\ Asked(last.args[2]) \in Configured
    /\ DictRead[Asked(last.args[2])] = ""
    /\ last.ret # ""
    /\ \E l \in Configured :
          DictRead[l] # LatestBody(last.args[1], l, last.args[3])

\* The path without one trailing and one leading "/".
Norm(path) ==
    LET n == Len(path)
        a == IF n > 0 /\ path[n] = "/" THEN 1 ELSE 0
        b == IF n - a > 0 /\ path[1] = "/" THEN 1 ELSE 0
    IN  [i \in 1..(n - a - b) |-> path[i + b]]

\* The final segment of the normalized path, "" when it ends with "/".
FinalSegment(path) ==
    LET q == Norm(path)
    IN  IF Len(q) = 0 \/ q[Len(q)] = "/" THEN "" ELSE q[Len(q)]

\* A page is in the scope of the current site.
InScope(p) ==
    settings.GERBI_USE_SITE_ID => pages[p].on_site

\* The root pages in the scope of the current site.
Roots == {p \in PageIds : pages[p].parent = 0 /\ InScope(p)}

\* The full hierarchical slug of a page: the latest slugs from its root down
\* to it, joined by "/".
RECURSIVE FullSlug(_, _)
FullSlug(p, lang) ==
    IF pages[p].parent = 0 THEN <<LatestBody(p, lang, "slug")>>
    ELSE FullSlug(pages[p].parent, lang)
            \o <<"/", LatestBody(p, lang, "slug")>>

\* The pages whose latest slug is S.
LatestHolders(S, lang) ==
    {p \in PageIds : LatestBody(p, lang, "slug") = S}

\* The candidates for S: the pages in scope with a slug revision S, latest
\* or stale, drafts left out when asked.
Candidates(S, exclude_drafts) ==
    {p \in PageIds :
        /\ \E c \in contents : c.page = p /\ c.type = "slug" /\ c.body = S
        /\ InScope(p)
        /\ exclude_drafts => pages[p].status # "DRAFT"}

\* C6: from_path on a path that normalizes to the empty string returns a
\* root page in the scope of the site when there is one, None when there is
\* none.
C6_RootPath ==
    (last.op = "from_path" /\ Norm(last.args[1]) = <<>>) =>
        IF Roots = {} THEN last.ret = 0 ELSE last.ret \in Roots

\* "/" was resolved to a root page while another root is out of scope.
C6_Witness ==
    /\ last.op = "from_path"
    /\ last.args[1] = <<"/">>
    /\ last.ret \in Roots
    /\ \E p \in PageIds : pages[p].parent = 0 /\ p \notin Roots

\* What C7 says from_path returns when P is the one page for the slug.
C7_Resolves(P) ==
    IF settings.GERBI_USE_STRICT_URL
          /\ FullSlug(P, last.args[2]) # Norm(last.args[1])
    THEN last.ret = 0
    ELSE last.ret = P

\* C7 as stated: when exactly one page P has its latest slug equal to the
\* final segment S of the path, from_path returns P (in strict mode exactly
\* when the full slug of P is the normalized path, None otherwise), whatever
\* slug revisions other pages have.  P is taken in the site scope and not a
\* draft left out, so that only the slug revisions of other pages matter.
C7_AsStated ==
    (last.op = "from_path" /\ FinalSegment(last.args[1]) # "") =>
        \A P \in PageIds :
           (/\ LatestHolders(FinalSegment(last.args[1]), last.args[2]) = {P}
            /\ InScope(P)
            /\ last.args[3] => pages[P].status # "DRAFT")
              => C7_Resolves(P)

\* C7 amended: the same when exactly one candidate P remains for S, the
\* candidates being the pages in the site scope that have a slug revision
\* S, latest or stale, drafts left out when exclude_drafts is set.
C7_SingleCandidate ==
    (last.op = "from_path" /\ FinalSegment(last.args[1]) # "") =>
        \A P \in PageIds :
           Candidates(FinalSegment(last.args[1]), last.args[3]) = {P}
              => C7_Resolves(P)

\* Without strict urls a path of several segments was resolved to the only
\* candidate, whose slug S is a stale one and whose full slug is not the
\* path.
C7_Witness ==
    /\ last.op = "from_path"
    /\ ~settings.GERBI_USE_STRICT_URL
    /\ Len(last.args[1]) > 1
    /\ FinalSegment(last.args[1]) # ""
    /\ Candidates(FinalSegment(last.args[1]), last.args[3]) = {last.ret}
    /\ LatestBody(last.ret, "en", "slug") # FinalSegment(last.args[1])
    /\ FullSlug(last.ret, last.args[2]) # Norm(last.args[1])

\* C8: with two or more candidates from_path returns the first candidate, in
\* the order of the pages, whose full slug is the normalized path, and None
\* when no candidate has it; it never returns a candidate whose full slug
\* differs from the path.
C8_FirstFullMatch ==
    (last.op = "from_path" /\ FinalSegment(last.args[1]) # "") =>
        LET C == Candidates(FinalSegment(last.args[1]), last.args[3])
            M == {p \in C : FullSlug(p, last.args[2]) = Norm(last.args[1])}
        IN  Cardinality(C) >= 2 =>
               IF M = {} THEN last.ret = 0
               ELSE last.ret \in M /\ \A q \in M : last.ret <= q

\* Two pages share the slug; the first candidate's full slug is not the path
\* and the second one, whose is, was returned.
C8_Witness ==
    /\ last.op = "from_path"
    /\ settings.GERBI_USE_STRICT_URL
    /\ Cardinality(Candidates(FinalSegment(last.args[1]), last.args[3])) = 2
    /\ last.ret # 0
    /\ \E p \in Candidates(FinalSegment(last.args[1]), last.args[3]) :
          p < last.ret /\ FullSlug(p, last.args[2]) # Norm(last.args[1])

\* The alias saved under a url, NoAlias when there is none.
AliasAt(url) ==
    IF \E a \in aliases : a.url = url
    THEN CHOOSE a \in aliases : a.url = url
    ELSE NoAlias

\* C9: with a non-empty query string Q, PageAliasManager.from_path returns
\* the alias saved under normalized path + "?" + Q when there is one; else,
\* and without query string, the alias saved under the normalized path
\* alone; None when there is neither.
C9_QueryAliasFirst ==
    last.op = "alias_from_path" =>
        LET Q == last.args[1]
            plain == normalize_url(last.args[2])
            qualified == plain \o <<"?", Q>>
        IN  IF Q # "" /\ AliasAt(qualified) # NoAlias
            THEN last.ret = AliasAt(qualified)
            ELSE last.ret = AliasAt(plain)

\* Aliases are saved under the path alone and under the path with the query
\* string of the request; the second one was returned.
C9_Witness ==
    /\ last.op = "alias_from_path"
    /\ last.args[1] # ""
    /\ AliasAt(normalize_url(last.args[2])) # NoAlias
    /\ last.ret.url = normalize_url(last.args[2]) \o <<"?", last.args[1]>>
    /\ last.ret.page # AliasAt(normalize_url(last.args[2])).page

\* The pages that have a "slug" row of body S, in any language, latest or
\* stale.
SlugHolders(S) ==
    {p \in PageIds :
        \E c \in contents : c.page = p /\ c.type = "slug" /\ c.body = S}

\* C11: get_page_ids_by_slug(S) returns the ids of the pages that have at
\* least one "slug" Content of body S, current or stale, in any language, and
\* no other id; each id is there once; the result is empty when no page has
\* one.
C11_PageIdsBySlug ==
    last.op = "get_page_ids_by_slug" =>
        /\ elements(last.ret) = SlugHolders(last.args[1])
        /\ Len(last.ret) = Cardinality(SlugHolders(last.args[1]))

\* A page with two "slug" rows of body S is listed once, and a page that has
\* S as a title only is not listed.
C11_Witness ==
    /\ last.op = "get_page_ids_by_slug"
    /\ \E c, d \in contents :
          /\ c # d /\ c.page = d.page
          /\ c.type = "slug" /\ d.type = "slug"
          /\ c.body = last.args[1] /\ d.body = last.args[1]
          /\ last.ret = <<c.page>>
    /\ \E c \in contents :
          /\ c.type # "slug" /\ c.body = last.args[1]
          /\ c.page \notin elements(last.ret)

\* get_page_ids_by_slug(S) lists page P, whatever the order of the list.
Resolves(S, P) ==
    \A page_ids \in get_page_ids_by_slug(S) : P \in elements(page_ids)

\* The k greatest instants of a set of instants.
LastK(B, k) ==
    {t \in B : Cardinality({u \in B : u > t}) < k}

\* C12 as stated: a page that get_page_ids_by_slug(S) lists is listed after
\* every later slug change made with create_content_if_changed.
C12_AsStated ==
    [][\A P \in PageIds, S \in Slugs : Resolves(S, P) => Resolves(S, P)']_vars

\* C12 amended: a slug row of page P with body S keeps P listed under S
\* after a create_content_if_changed call when the revision depth K is 0, or
\* when the row is one of the K rows of its (page, language) created last,
\* the new one counted.
C12_StaleWithinDepth ==
    [][\A c \in contents :
          (/\ c.type = "slug"
           /\ \/ settings.GERBI_CONTENT_REVISION_DEPTH = 0
              \/ c.creation_date \in
                    LastK(Born(c.page, c.language, "slug")',
                          settings.GERBI_CONTENT_REVISION_DEPTH))
          => Resolves(c.body, c.page)']_vars

\* With K > 0 a slug was changed more than K times, the oldest row was
\* pruned, and the page of the call is still listed under a stale slug.
C12_Witness ==
    /\ last.op = "create_content_if_changed" /\ last.created
    /\ last.args[3] = "slug"
    /\ settings.GERBI_CONTENT_REVISION_DEPTH > 0
    /\ Cardinality(Born(last.args[1], last.args[2], "slug"))
          > settings.GERBI_CONTENT_REVISION_DEPTH
    /\ \E c \in Revisions(last.args[1], last.args[2], "slug") :
          /\ c.body # last.ret.body
          /\ Resolves(c.body, last.args[1])

\* The key of the content dict of a page and a type, from the page as it is.
KeyOf(page, ctype) ==
    <<page, ctype, IF pages[page].freeze_date # 0 THEN 1 ELSE 0>>

\* The dict a rebuild stores: every configured language with the body of
\* the row get_content_object returns, "" without row.
Rebuilt(page, ctype) ==
    [l \in Configured |-> ShownBody(page, l, ctype)]

\* C15: get_content reads the memo of the page first, then the shared cache
\* under the key of page id, type and frozen flag, and leaves both as they
\* are when one of them has the entry; when both miss it rebuilds the dict
\* from get_content_object for every configured language ("" without
\* Content) and stores it in the memo and in the shared cache under that
\* key, and touches no other entry.
C15_MemoThenCache ==
    [][\A p \in PageIds, t \in ContentTypes :
          (/\ last'.op = "get_content"
           /\ last'.args[1] = p /\ last'.args[3] = t)
          => LET key == KeyOf(p, t)
             IN  IF DOMAIN memo[p][key] # {} \/ DOMAIN cache[key] # {}
                 THEN /\ memo' = memo /\ cache' = cache
                      /\ ~last'.created
                 ELSE /\ last'.created
                      /\ memo' = [memo EXCEPT ![p][key] = Rebuilt(p, t)]
                      /\ cache' = [cache EXCEPT ![key] = Rebuilt(p, t)]]_vars

\* A frozen page was read when memo and cache both missed: both now hold,
\* under the key of the frozen flag, the dict of the rows up to the freeze
\* date, which is not the dict of the latest rows.
C15_Witness ==
    /\ last.op = "get_content" /\ last.created
    /\ pages[last.args[1]].freeze_date # 0
    /\ LET key == <<last.args[1], last.args[3], 1>>
       IN  /\ memo[last.args[1]][key] = cache[key]
           /\ DOMAIN cache[key] = Configured
           /\ \E l \in Configured : cache[key][l] # ""
           /\ \E l \in Configured :
                 cache[key][l] # LatestBody(last.args[1], l, last.args[3])

\* C16: a populated entry of the shared cache is changed by a cache
\* eviction only, and a populated entry of the memo by a reload of the page
\* only; set_or_create_content, create_content_if_changed and a change of
\* freeze_date leave memo and cache as they are, and a get_content call that
\* finds the entry of its key returns a body of that entry without
\* rebuilding it.
C16_NoInvalidation ==
    [][/\ (IsWrite(last') \/ last'.op = "set_freeze_date")
             => memo' = memo /\ cache' = cache
       /\ \A k \in CacheKeys :
             (DOMAIN cache[k] # {} /\ last'.op # "cache_delete")
                => cache'[k] = cache[k]
       /\ \A p \in PageIds, k \in CacheKeys :
             (DOMAIN memo[p][k] # {} /\ last'.op # "load_page")
                => memo'[p][k] = memo[p][k]
       /\ \A p \in PageIds, t \in ContentTypes :
             (/\ last'.op = "get_content"
              /\ last'.args[1] = p /\ last'.args[3] = t
              /\ DOMAIN memo[p][KeyOf(p, t)] # {}
                    \/ DOMAIN cache[KeyOf(p, t)] # {})
             => /\ ~last'.created
                /\ last'.ret \in
                      {""} \cup {filter_link(b, p, l, t) :
                                   b \in {memo[p][KeyOf(p, t)][l2] :
                                            l2 \in DOMAIN memo[p][KeyOf(p, t)]}
                                        \cup {cache[KeyOf(p, t)][l2] :
                                            l2 \in DOMAIN cache[KeyOf(p, t)]},
                                   l \in Configured}]_vars

\* After a write and a change of freeze_date that keeps the frozen flag,
\* get_content returned the body of the entry, which is neither the latest
\* body of the store nor the one the frozen page shows.
C16_Witness ==
    /\ last.op = "get_content" /\ ~last.created
    /\ pages[last.args[1]].freeze_date # 0
    /\ Asked(last.args[2]) \in Configured
    /\ LET L == Asked(last.args[2])
           d == DictRead
       IN  /\ d[L] # ""
           /\ last.ret = filter_link(d[L], last.args[1], L, last.args[3])
           /\ d[L] # LatestBody(last.args[1], L, last.args[3])
           /\ d[L] # ShownBody(last.args[1], L, last.args[3])

\* The first configured language whose body in d is not empty, "" when
\* there is none.
FirstNonEmpty(d) ==
    IF \E i \in 1..Len(GERBI_LANGUAGES) :
          GERBI_LANGUAGES[i] \in DOMAIN d /\ d[GERBI_LANGUAGES[i]] # ""
    THEN GERBI_LANGUAGES[
            CHOOSE i \in 1..Len(GERBI_LANGUAGES) :
               /\ GERBI_LANGUAGES[i] \in DOMAIN d
               /\ d[GERBI_LANGUAGES[i]] # ""
               /\ \A j \in 1..(i - 1) :
                     GERBI_LANGUAGES[j] \in DOMAIN d
                        => d[GERBI_LANGUAGES[j]] = ""]
    ELSE ""

\* What C17 says get_content returns from the dict d it read, link(b, l)
\* being what becomes of the body b of language l on the way out.
C17_Returns(d, link(_, _)) ==
    LET L == Asked(last.args[2])
    IN  IF L \in DOMAIN d /\ d[L] # ""
        THEN last.ret = link(d[L], L)
        ELSE IF last.args[4] /\ FirstNonEmpty(d) # ""
             THEN last.ret = link(d[FirstNonEmpty(d)], FirstNonEmpty(d))
             ELSE last.ret = ""

\* C17 as stated: get_content returns the body of the requested language
\* (the default one for a missing language) when it is not empty; else, with
\* language_fallback, the body of the first configured language whose body
\* is not empty; else "".
C17_AsStated ==
    last.op = "get_content" =>
        LET asis(b, l) == b
        IN  C17_Returns(DictRead, asis)

\* C17 amended: the same, the body returned being passed through
\* filter_link with the page, the language it was found under and the type.
C17_ReturnsFilteredBody ==
    last.op = "get_content" =>
        LET linked(b, l) == filter_link(b, last.args[1], l, last.args[3])
        IN  C17_Returns(DictRead, linked)

\* A language that is not configured was asked with language_fallback: the
\* first language has no body and the body of the second one was returned,
\* its links rewritten.
C17_Witness ==
    /\ last.op = "get_content" /\ last.args[4]
    /\ last.args[2] = "de"
    /\ DictRead[GERBI_LANGUAGES[1]] = ""
    /\ DictRead[GERBI_LANGUAGES[2]] # ""
    /\ last.ret = filter_link(DictRead[GERBI_LANGUAGES[2]], last.args[1],
                              GERBI_LANGUAGES[2], last.args[3])
    /\ last.ret # DictRead[GERBI_LANGUAGES[2]]

\* C19 as stated: from_path called with exclude_drafts=True returns no page
\* in DRAFT status, for any path, the paths that normalize to the empty path
\* included.
C19_AsStated ==
    (last.op = "from_path" /\ last.args[3] /\ last.ret # 0)
        => pages[last.ret].status # "DRAFT"

\* C19 amended: from_path called with exclude_drafts=True returns no page in
\* DRAFT status for a path that does not normalize to the empty path; for
\* the empty path it returns a root page in the site scope whatever its
\* status.
C19_NoDraftBySlug ==
    (last.op = "from_path" /\ last.args[3] /\ last.ret # 0)
        => IF Norm(last.args[1]) # <<>>
           THEN pages[last.ret].status # "DRAFT"
           ELSE last.ret \in Roots

\* A draft in the site scope has the slug and the full slug of the path, and
\* from_path called with exclude_drafts=True did not return it.
C19_Witness ==
    /\ last.op = "from_path" /\ last.args[3]
    /\ Norm(last.args[1]) # <<>>
    /\ \E p \in PageIds :
          /\ pages[p].status = "DRAFT" /\ InScope(p)
          /\ p \in LatestHolders(FinalSegment(last.args[1]), last.args[2])
          /\ FullSlug(p, last.args[2]) = Norm(last.args[1])
          /\ last.ret # p

\* C18: from_path of PageManager returns None when the path is the root
\* path and there is no root page, when no candidate has the slug, when the
\* only candidate fails the strict comparison of the full slug, and when
\* none of several candidates has the full slug of the path; from_path of
\* PageAliasManager returns None when no alias is saved under the url with
\* the query string nor under the url alone.  The call returns in each case.
\* The candidates are those of the slug get_slug takes from the path.
C18_AbsentIsNone ==
    /\ last.op = "from_path" =>
          LET path == Norm(last.args[1])
              C == Candidates(get_slug(path), last.args[3])
              M == {p \in C : FullSlug(p, last.args[2]) = path}
          IN  /\ (path = <<>> /\ Roots = {}) => last.ret = 0
              /\ (path # <<>> /\ C = {}) => last.ret = 0
              /\ (path # <<>> /\ Cardinality(C) = 1 /\ M = {}
                     /\ settings.GERBI_USE_STRICT_URL) => last.ret = 0
              /\ (path # <<>> /\ Cardinality(C) >= 2 /\ M = {})
                     => last.ret = 0
    /\ last.op = "alias_from_path" =>
          LET plain == normalize_url(last.args[2])
              qualified == plain \o <<"?", last.args[1]>>
          IN  (AliasAt(plain) = NoAlias
                  /\ (last.args[1] # "" => AliasAt(qualified) = NoAlias))
                 => last.ret = NoAlias

\* A page resolution ended on None with a single candidate that fails the
\* strict comparison.
C18_Witness ==
    /\ last.op = "from_path" /\ last.ret = 0
    /\ settings.GERBI_USE_STRICT_URL
    /\ Norm(last.args[1]) # <<>>
    /\ \E P \in PageIds :
          /\ Candidates(FinalSegment(last.args[1]), last.args[3]) = {P}
          /\ FullSlug(P, last.args[2]) # Norm(last.args[1])

\* An alias resolution ended on None while aliases are saved under other
\* urls.
C18_WitnessAlias ==
    /\ last.op = "alias_from_path" /\ last.ret = NoAlias
    /\ last.args[1] # ""
    /\ aliases # {}

\* Two callers passed the check of create_content_if_changed on the same
\* state of the tuple, with the same arguments, and both went on to save.
Raced(p, q) ==
    /\ p # q
    /\ calls[p].created /\ calls[q].created
    /\ calls[p].args = calls[q].args
    /\ calls[p].seen = calls[q].seen

\* C13: nothing keeps two concurrent create_content_if_changed calls with
\* the same tuple and the same body X apart: when both read the latest row
\* before either saved, each creates a revision of its own with body X, and
\* without pruning both revisions are in the store.  A caller that reads a
\* latest row with body X creates nothing and returns that row.
C13_EachCreates ==
    /\ \A p, q \in Callers :
          Raced(p, q) =>
             /\ calls[p].content # calls[q].content
             /\ calls[p].content.body = calls[p].args[4]
             /\ calls[q].content.body = calls[p].args[4]
             /\ settings.GERBI_CONTENT_REVISION_DEPTH = 0
                   => {calls[p].content, calls[q].content} \subseteq contents
    /\ \A p \in Callers :
          (calls[p].pc = "done" /\ calls[p].seen # NoContent
              /\ calls[p].seen.body = calls[p].args[4])
             => ~calls[p].created /\ calls[p].content = calls[p].seen

\* Both callers are done: the latest body was not X when they read it, each
\* has created a revision, and the tuple holds two revisions with body X.
C13_Witness ==
    \E p, q \in Callers :
       /\ Raced(p, q)
       /\ calls[p].pc = "done" /\ calls[q].pc = "done"
       /\ calls[p].seen # NoContent
       /\ calls[p].seen.body # calls[p].args[4]
       /\ Cardinality({c \in Revisions(calls[p].args[1], calls[p].args[2],
                                       calls[p].args[3]) :
                         c.body = calls[p].args[4]}) = 2

\* No caller is inside a call.
Quiescent ==
    \A r \in Callers : calls[r].pc \in {"idle", "done"}

\* C20: with revision depth K >= 1, whatever the interleaving of concurrent
\* create_content_if_changed calls on a tuple, no step deletes the row of
\* the tuple with the greatest creation date, so that a tuple with a row
\* keeps one; and when no call is in progress the tuple has at most K rows.
C20_NewestSurvives ==
    /\ [][settings.GERBI_CONTENT_REVISION_DEPTH >= 1
            => \A c \in contents :
                  c = Newest(Revisions(c.page, c.language, c.type))
                     => c \in contents']_vars
    /\ []((settings.GERBI_CONTENT_REVISION_DEPTH >= 1 /\ Quiescent)
            => \A c \in contents :
                  Cardinality(Revisions(c.page, c.language, c.type))
                     <= settings.GERBI_CONTENT_REVISION_DEPTH)

\* With K >= 1 two callers raced, both created a revision and both pruned:
\* more rows were created than K, and K rows are left.
C20_Witness ==
    /\ settings.GERBI_CONTENT_REVISION_DEPTH >= 1
    /\ \E p, q \in Callers :
          /\ Raced(p, q)
          /\ calls[p].pc = "done" /\ calls[q].pc = "done"
          /\ Cardinality(Born(calls[p].args[1], calls[p].args[2],
                              calls[p].args[3]))
                > settings.GERBI_CONTENT_REVISION_DEPTH
          /\ Cardinality(Revisions(calls[p].args[1], calls[p].args[2],
                                   calls[p].args[3]))
                = settings.GERBI_CONTENT_REVISION_DEPTH

\* The body get_content returns to a single caller that finds neither memo
\* nor cache entry: taken from the rebuilt dict, its links rewritten.
SingleCall(page, lang, ctype, language_fallback) ==
    LET d == Rebuilt(page, ctype)
    IN  IF lang \in DOMAIN d /\ d[lang] # ""
        THEN filter_link(d[lang], page, lang, ctype)
        ELSE IF language_fallback /\ FirstNonEmpty(d) # ""
             THEN filter_link(d[FirstNonEmpty(d)], page, FirstNonEmpty(d),
                              ctype)
             ELSE ""

\* C14: while the store does not change, every get_content caller that
\* misses memo and cache on a key rebuilds the dict a single call would
\* build; once it has written it, memo and shared cache hold that dict under
\* the key, whatever the other callers wrote before or after; and it returns
\* the body a single call would return.
C14_IdempotentRecompute ==
    \A r \in Callers :
       calls[r].created =>
          LET a == calls[r].args
              key == KeyOf(a[1], a[3])
          IN  /\ calls[r].key = key
              /\ calls[r].pc \in {"memo", "set", "return", "done"}
                    => calls[r].content_dict = Rebuilt(a[1], a[3])
              /\ calls[r].pc \in {"return", "done"}
                    => /\ cache[key] = Rebuilt(a[1], a[3])
                       /\ memo[a[1]][key] = Rebuilt(a[1], a[3])
              /\ calls[r].pc = "done"
                    => calls[r].body = SingleCall(a[1], a[2], a[3], a[4])

\* Two callers missed on the key of a frozen page at the same time, both
\* rebuilt the dict and wrote it, and both have returned a body.
C14_Witness ==
    /\ \A r \in Callers :
          /\ calls[r].pc = "done" /\ calls[r].created
          /\ calls[r].body # ""
    /\ \A p, q \in Callers : calls[p].key = calls[q].key
    /\ \E r \in Callers :
          /\ calls[r].key[3] = 1
          /\ \E l \in Configured :
                cache[calls[r].key][l]
                   # LatestBody(calls[r].args[1], l, calls[r].args[3])

====
